---------------------------- MODULE Spec2Model ----------------------------
(***************************************************************************)
(* Model of src/data/classify.py (CodeforKarlsruhe/streetnames): the       *)
(* keyword taxonomy, calculate_inverse_document_frequencies, classify and  *)
(* the __main__ driver; and of the PDF Converter of                        *)
(* src/extract_raw_data.py.                                                *)
(*                                                                         *)
(* Texts and keywords are TLA+ strings; substring tests, lowercasing and   *)
(* whitespace splitting are computed character by character.  Floats are   *)
(* fixed-point integers in units of 1/SCALE (a score s stands for the      *)
(* float s / SCALE).                                                       *)
(***************************************************************************)
EXTENDS Integers, Sequences, FiniteSets, TLC

(***************************************************************************)
(* Bounds of the model.                                                    *)
(***************************************************************************)
\* keywords kept of each _add_kws registration (the first MaxKw words)
MaxKw == 2
\* tokens of a generated text
MaxTokens == 2
\* terms and documents handed to calculate_inverse_document_frequencies
MaxTerms == 2
MaxDocs == 2
\* entities of the driver's raw_data.json
MaxStreets == 2
\* the number of calls a direct caller makes with the same arguments
MaxCalls == 2

(***************************************************************************)
(* Strings.                                                                *)
(***************************************************************************)
Char(s, i) == SubSeq(s, i, i)

Range(f) == {f[i] : i \in DOMAIN f}

UpperChars == "ABCDEFGHIJKLMNOPQRSTUVWXYZÄÖÜ"
LowerChars == "abcdefghijklmnopqrstuvwxyzäöü"

LowerChar(c) ==
    IF \E i \in 1..Len(UpperChars) : Char(UpperChars, i) = c
    THEN Char(LowerChars, CHOOSE i \in 1..Len(UpperChars) : Char(UpperChars, i) = c)
    ELSE c

\* unicode(word).lower(): every character lowercased (by halves, to keep
\* the evaluation shallow on long texts)
RECURSIVE _normalize(_)
_normalize(word) ==
    IF Len(word) = 0 THEN ""
    ELSE IF Len(word) = 1 THEN LowerChar(word)
    ELSE LET h == Len(word) \div 2
         IN  _normalize(SubSeq(word, 1, h)) \o _normalize(SubSeq(word, h + 1, Len(word)))

\* Python's `k in w` on strings (the arguments are bound first, so that
\* each is evaluated once)
Contains(k, w) ==
    \E kk \in {k}, ww \in {w} :
        \E i \in 1..(Len(ww) - Len(kk) + 1) : SubSeq(ww, i, i + Len(kk) - 1) = kk

IsSpace(c) == c \in {" ", "\t", "\n"}

\* the sequence q itself, as an evaluated tuple (TLC evaluates a sequence
\* written [k \in 1..n |-> e] anew at each use)
Tuple(q) == q \o <<>>

\* the k-th smallest element of a finite set of integers
Nth(S, k) == CHOOSE i \in S : Cardinality({j \in S : j < i}) = k - 1

\* str.split(): the maximal runs of non-whitespace characters, in order
Split(s) ==
    LET starts == {i \in 1..Len(s) :
                       /\ ~IsSpace(Char(s, i))
                       /\ (i = 1 \/ IsSpace(Char(s, i - 1)))}
        EndOf(i) == CHOOSE j \in i..Len(s) :
                       /\ \A m \in i..j : ~IsSpace(Char(s, m))
                       /\ (j = Len(s) \/ IsSpace(Char(s, j + 1)))
    IN  Tuple([k \in 1..Cardinality(starts) |->
                  LET i == Nth(starts, k) IN SubSeq(s, i, EndOf(i))])

\* str.split('/'): the pieces between the slashes, empty pieces kept
SplitSlash(s) ==
    LET cuts == {i \in 1..Len(s) : Char(s, i) = "/"}
        n == Cardinality(cuts)
        CutAt(k) == IF k = 0 THEN 0 ELSE IF k = n + 1 THEN Len(s) + 1 ELSE Nth(cuts, k)
    IN  Tuple([k \in 1..(n + 1) |-> SubSeq(s, CutAt(k - 1) + 1, CutAt(k) - 1)])

\* sep.join(ws) (by halves)
RECURSIVE JoinWith(_, _)
JoinWith(sep, ws) ==
    IF Len(ws) = 0 THEN ""
    ELSE IF Len(ws) = 1 THEN ws[1]
    ELSE LET h == Len(ws) \div 2
         IN  JoinWith(sep, SubSeq(ws, 1, h)) \o sep \o JoinWith(sep, SubSeq(ws, h + 1, Len(ws)))

\* '/'.join(id)
_s(id) == JoinWith("/", id)

MapNormalize(ws) == Tuple([i \in 1..Len(ws) |-> _normalize(ws[i])])

Prefix(ws, n) == SubSeq(ws, 1, IF Len(ws) < n THEN Len(ws) ELSE n)

\* all sequences over S of length lo..hi
SeqsOf(S, lo, hi) == UNION {[1..n -> S] : n \in lo..hi}

(***************************************************************************)
(* The taxonomy: the _add_kws registrations in source order.               *)
(***************************************************************************)
Registrations == <<
    <<"A", "kunst keramik">>,
    <<"A/L", "dicht schriftsteller zwerg märchen sage epos mytho">>,
    <<"A/M", "musik komponist lyrik lied">>,
    <<"A/P", "maler zeichner">>,
    <<"E", "volkswirt hansa hanse schiffer krämer industrie zoll">>,
    <<"E/C", "firma brauerei unternehm gmbh co kg ag raffinerie druckerei\n         verlag">>,
    <<"G", "lage hafen friedhof flur park gewann fels insel äcker">>,
    <<"G/B", "haus gaststätte gastwirtschaft bahnhof bad garten gärten\n         erbaut schloss schule burg baut wiese weide kirche kloster postamt\n         mühle ziegelei">>,
    <<"G/F", "wald wäldle">>,
    <<"G/L", "straße verbindung weg strecke pfad">>,
    <<"G/M", "berg gebirg erhebung">>,
    <<"G/R", "heimat landschaft bundesstaat bundesland provinz">>,
    <<"G/S", "stadt siedlung dorf ort gemeinde">>,
    <<"G/W", "fluss fluß bach see entspringt mündet kanal graben quell\n         brunnen">>,
    <<"H/H", "histori">>,
    <<"H/L", "jurist gericht anwalt kanzlei">>,
    <<"H/P", "philosoph">>,
    <<"M", "feldzug militär soldat krieg kämpfer kampf regiment\n         bataillon schlacht general">>,
    <<"N/P", "gehölz blume pflanze strauch kraut getreide frucht staude\n         obst baum bäume">>,
    <<"N/A", "insekt vogel falter schmetterling marder fisch">>,
    <<"O", "geschlecht">>,
    <<"P", "politi präsident bundeskanzler abgeordneter stadtrat\n         minister reichstag bürgermeister bundestag sozialis schultheiß">>,
    <<"R", "pater theolog bischof priester heilig religi apostel gott">>,
    <<"S", "mathematik physik maschinenbau geograph forsch konstru\n         ingenieur erfind">>,
    <<"S/M", "medizin arzt pflege krank psychia pharma">>,
    <<"T", "stamm">> >>

\* _add_kws(id, words) applied to the table kw (a defaultdict of lists)
_add_kws(kw, id, words) ==
    LET tid == SplitSlash(id)
        new == MapNormalize(Prefix(Split(words), MaxKw))
        old == IF tid \in DOMAIN kw THEN kw[tid] ELSE <<>>
    IN  [t \in (DOMAIN kw) \cup {tid} |-> IF t = tid THEN old \o new ELSE kw[t]]

RECURSIVE AddAll(_, _)
AddAll(kw, i) ==
    IF i > Len(Registrations) THEN kw
    ELSE AddAll(_add_kws(kw, Registrations[i][1], Registrations[i][2]), i + 1)

\* _KEYWORDS after the module has loaded (lines 98-137)
LoadedKeywords == AddAll(<<>>, 1)

\* the keys of _KEYWORDS in the order of their registration
KeyOrder == Tuple([i \in 1..Len(Registrations) |-> SplitSlash(Registrations[i][1])])

TopicIds == DOMAIN LoadedKeywords

\* id[:-1]
Parent(id) == SubSeq(id, 1, Len(id) - 1)

\* reading d[k] of a defaultdict(lambda: 0), without the insertion
Get0(d, k) == IF k \in DOMAIN d THEN d[k] ELSE 0

\* d[k] = v
Put(d, k, v) == [x \in (DOMAIN d) \cup {k} |-> IF x = k THEN v ELSE d[x]]

\* del d[k]
Del(d, k) == [x \in (DOMAIN d) \ {k} |-> d[x]]

\* (mutant) only a parent with keywords of its own gets a count
RECURSIVE CountChildrenRegisteredParent(_, _)
CountChildrenRegisteredParent(nc, i) ==
    IF i > Len(KeyOrder) THEN nc
    ELSE LET id == KeyOrder[i]
         IN  IF Len(id) > 1 /\ Parent(id) \in DOMAIN LoadedKeywords
             THEN CountChildrenRegisteredParent(
                      Put(nc, Parent(id), Get0(nc, Parent(id)) + 1), i + 1)
             ELSE CountChildrenRegisteredParent(nc, i + 1)

\* for id in _KEYWORDS: if len(id) > 1: _NUM_CHILDREN[id[:-1]] += 1
RECURSIVE CountChildren(_, _)
CountChildren(nc, i) ==
    IF i > Len(KeyOrder) THEN nc
    ELSE LET id == KeyOrder[i]
         IN  IF Len(id) > 1
             THEN CountChildren(Put(nc, Parent(id), Get0(nc, Parent(id)) + 1), i + 1)
             ELSE CountChildren(nc, i + 1)

\* _NUM_CHILDREN after the module has loaded (lines 140-143)
LoadedNumChildren == CountChildren(<<>>, 1)

(***************************************************************************)
(* Floats in fixed point: x stands for x / SCALE.                          *)
(***************************************************************************)
SCALE == 2520

\* ln 2, in units of 1/SCALE
LN2 == (SCALE * 693147) \div 1000000

FMul(a, b) == (a * b) \div SCALE

\* ln y for SCALE <= y < 2 * SCALE: 2 * atanh((y - 1) / (y + 1))
LnUnit(y) ==
    LET z  == ((y - SCALE) * SCALE) \div (y + SCALE)
        z2 == FMul(z, z)
        z3 == FMul(z, z2)
        z5 == FMul(z3, z2)
        z7 == FMul(z5, z2)
    IN  2 * (z + z3 \div 3 + z5 \div 5 + z7 \div 7)

\* math.log(y) for y > 0, by halving or doubling y into [1, 2)
RECURSIVE Ln(_)
Ln(y) ==
    IF y >= 2 * SCALE THEN LN2 + Ln(y \div 2)
    ELSE IF y < SCALE THEN Ln(2 * y) - LN2
    ELSE LnUnit(y)

(***************************************************************************)
(* State.                                                                  *)
(***************************************************************************)
VARIABLES
    _KEYWORDS,        \* module global: topic id -> keyword list
    _NUM_CHILDREN,    \* module global: parent id -> number of children
    dict_order,       \* the order in which this process's dicts yield topic ids
    load,             \* the steps of the module body (lines 98-143) still to run
    pc,               \* position of the running code
    caller,           \* "main" when the driver runs, "none" for a direct call
    exc,              \* the exception that ended the run: <<type, argument>>, or <<>>
    \* calculate_inverse_document_frequencies(terms, docs): its arguments
    \* (docs holds what the iterable yields; docs_gen: it is a generator,
    \* docs_used: the generator is exhausted) and its locals
    terms, docs, docs_gen, docs_used, normalized_docs, c_idfs, ti,
    \* the IDF table a caller holds (the driver's `idfs`, classify's argument)
    idfs,
    \* classify(text, idfs): its argument, its locals, and the list it returned
    text, info, scores, depth, classes,
    \* the driver
    streets, pending, name, classification, printed, written,
    \* a direct caller that calls more than once: the outcomes of its
    \* finished calls, and the frames of its calls that are not running
    history, parked,
    \* the PDF Converter: its fields `entries` and `_entry`, and the
    \* render_string calls the page interpreter has made so far
    entries, _entry, rendered

modvars == <<_KEYWORDS, _NUM_CHILDREN, dict_order, load>>
idfargs == <<terms, docs, docs_gen, docs_used>>
idflocals == <<normalized_docs, c_idfs, ti>>
clsvars == <<text, info, scores, depth, classes>>
drvvars == <<streets, pending, name, classification, printed, written>>
callctx == <<caller, history, parked>>
cnvvars == <<entries, _entry, rendered>>
vars == <<modvars, pc, callctx, exc, idfargs, idflocals, idfs, clsvars, drvvars, cnvvars>>

\* every id a Score Map can hold: the topics and their parents
AllIds == TopicIds \cup {Parent(id) : id \in {t \in TopicIds : Len(t) > 1}}

\* the registration order, then the parents that own no keywords
CanonOrder ==
    LET extra == AllIds \ TopicIds
        ex == CHOOSE q \in [1..Cardinality(extra) -> extra] : Range(q) = extra
    IN  KeyOrder \o ex

Reverse(q) == Tuple([i \in 1..Len(q) |-> q[Len(q) + 1 - i]])

\* Python 2 fixes the order of a dict's keys by their hashes; the model
\* takes it from these
DictOrders == {CanonOrder, Reverse(CanonOrder)}

\* d.items() / d.iteritems(): the (key, value) pairs in dict order
Items(d) ==
    LET ks == SelectSeq(dict_order, LAMBDA id : id \in DOMAIN d)
    IN  Tuple([k \in 1..Len(ks) |-> <<ks[k], d[ks[k]]>>])

NoIdfCall ==
    /\ terms = <<>> /\ docs = <<>> /\ docs_gen = FALSE /\ docs_used = FALSE
    /\ normalized_docs = <<>> /\ c_idfs = <<>> /\ ti = 0
NoClsCall ==
    /\ text = "" /\ info = <<>> /\ scores = <<>> /\ depth = 0 /\ classes = <<>>
NoDriver ==
    /\ streets = <<>> /\ pending = {} /\ name = "" /\ classification = <<>>
    /\ printed = {} /\ written = <<>>
SingleCall == history = <<>> /\ parked = <<>>
NoConverter == entries = <<>> /\ _entry = <<>> /\ rendered = <<>>
ModuleLoaded ==
    /\ _KEYWORDS = LoadedKeywords
    /\ _NUM_CHILDREN = LoadedNumChildren
    /\ dict_order \in DictOrders
    /\ load = <<>>

(***************************************************************************)
(* The module body, lines 98-143: the _add_kws calls, then the loop that   *)
(* counts the children.  SpecLoad runs it with the calls in several        *)
(* orders.                                                                 *)
(***************************************************************************)
\* the _add_kws calls as steps, in the order q of their positions
AddSteps(q) ==
    Tuple([i \in 1..Len(q) |->
              [op |-> "add", id |-> Registrations[q[i]][1], words |-> Registrations[q[i]][2]]])

\* the positions 1..n: as written, backwards, and odd ones before even ones
SourceOrder(n) == Tuple([i \in 1..n |-> i])
OddsThenEvens(n) ==
    SelectSeq(SourceOrder(n), LAMBDA i : i % 2 = 1) \o SelectSeq(SourceOrder(n), LAMBDA i : i % 2 = 0)
RegistrationOrders ==
    LET n == Len(Registrations)
    IN  {SourceOrder(n), Reverse(SourceOrder(n)), OddsThenEvens(n)}

\* (mutant) only a parent that has keywords of its own is counted for:
\* `if len(id) > 1 and id[:-1] in _KEYWORDS`
CountOneRegisteredParent(nc, id) ==
    IF Len(id) > 1 /\ Parent(id) \in DOMAIN _KEYWORDS
    THEN Put(nc, Parent(id), Get0(nc, Parent(id)) + 1)
    ELSE nc

\* lines 142-143: if len(id) > 1: _NUM_CHILDREN[id[:-1]] += 1
CountOne(nc, id) ==
    IF Len(id) > 1 THEN Put(nc, Parent(id), Get0(nc, Parent(id)) + 1) ELSE nc

\* one _add_kws(id, words) call of lines 104-137
LoadAddKws ==
    /\ pc = "load"
    /\ load # <<>>
    /\ _KEYWORDS' = _add_kws(_KEYWORDS, Head(load).id, Head(load).words)
    /\ load' = Tail(load)
    /\ UNCHANGED <<cnvvars, _NUM_CHILDREN, dict_order, pc, callctx, exc, idfargs, idflocals,
                   idfs, clsvars, drvvars>>

\* lines 140-141: _NUM_CHILDREN = defaultdict(...); for id in _KEYWORDS
LoadStartCount ==
    /\ pc = "load"
    /\ load = <<>>
    /\ _NUM_CHILDREN' = <<>>
    /\ load' = Tuple([i \in 1..Len(Items(_KEYWORDS)) |->
                         [op |-> "count", id |-> Items(_KEYWORDS)[i][1]]])
    /\ pc' = "count"
    /\ UNCHANGED <<cnvvars, _KEYWORDS, dict_order, callctx, exc, idfargs, idflocals, idfs,
                   clsvars, drvvars>>

\* lines 142-143 for one id of the loop
LoadCount ==
    /\ pc = "count"
    /\ load # <<>>
    /\ _NUM_CHILDREN' = CountOne(_NUM_CHILDREN, Head(load).id)
    /\ load' = Tail(load)
    /\ UNCHANGED <<cnvvars, _KEYWORDS, dict_order, pc, callctx, exc, idfargs, idflocals,
                   idfs, clsvars, drvvars>>

\* the loop has ended: the module is loaded
LoadDone ==
    /\ pc = "count"
    /\ load = <<>>
    /\ pc' = "loaded"
    /\ UNCHANGED <<cnvvars, modvars, callctx, exc, idfargs, idflocals, idfs, clsvars, drvvars>>

InitLoad ==
    /\ _KEYWORDS = <<>>
    /\ _NUM_CHILDREN = <<>>
    /\ dict_order \in DictOrders
    /\ load \in {AddSteps(q) : q \in RegistrationOrders}
    /\ pc = "load"
    /\ caller = "none"
    /\ exc = <<>>
    /\ NoIdfCall
    /\ idfs = <<>>
    /\ NoClsCall
    /\ NoDriver
    /\ NoConverter
    /\ SingleCall

NextLoad == LoadAddKws \/ LoadStartCount \/ LoadCount \/ LoadDone

SpecLoad == InitLoad /\ [][NextLoad]_vars

(***************************************************************************)
(* calculate_inverse_document_frequencies(terms, docs), lines 158-170.     *)
(***************************************************************************)
\* (mutant) a count that is never zero: `n or 1`
DocCountOrOne(term, ndocs) ==
    IF \E i \in 1..Len(ndocs) : Contains(term, ndocs[i])
    THEN Cardinality({i \in 1..Len(ndocs) : Contains(term, ndocs[i])})
    ELSE 1

\* sum(1 for doc in normalized_docs if term in doc)
DocCount(term, ndocs) == Cardinality({i \in 1..Len(ndocs) : Contains(term, ndocs[i])})

\* (mutant) a smoothed weight: 1.0 / (n + 1)
ReciprocalSmoothed(n) == SCALE \div (n + 1)

\* 1.0 / n
Reciprocal(n) == SCALE \div n

\* (mutant) any iterable is used up by one iteration
ConsumedAlways(gen, used) == TRUE

\* line 163, `for doc in docs`: iterating a generator exhausts it, a list
\* can be iterated again
Consumed(gen, used) == used \/ gen

\* lines 162-163: idfs = {}; the docs are read (once) and lowercased
IdfEnter ==
    /\ pc = "idf_enter"
    /\ c_idfs' = <<>>
    /\ normalized_docs' = IF docs_used THEN <<>> ELSE MapNormalize(docs)
    /\ docs_used' = Consumed(docs_gen, docs_used)
    /\ ti' = 1
    /\ pc' = "idf_loop"
    /\ UNCHANGED <<cnvvars, modvars, callctx, exc, terms, docs, docs_gen, idfs, clsvars, drvvars>>

\* lines 164-169: one iteration of `for term in terms`
IdfTerm ==
    /\ pc = "idf_loop"
    /\ ti <= Len(terms)
    /\ \E term \in {_normalize(terms[ti])} :
       \E n \in {DocCount(term, normalized_docs)} :
           IF n = 0
           THEN \* raise ValueError(term): the frame and its idfs are gone
                /\ exc' = <<"ValueError", term>>
                /\ pc' = "raised"
                /\ normalized_docs' = <<>> /\ c_idfs' = <<>> /\ ti' = 0
           ELSE /\ c_idfs' = Put(c_idfs, term, Reciprocal(n))
                /\ ti' = ti + 1
                /\ UNCHANGED <<pc, exc, normalized_docs>>
    /\ UNCHANGED <<cnvvars, modvars, callctx, idfargs, idfs, clsvars, drvvars>>

\* line 170: return idfs
IdfReturn ==
    /\ pc = "idf_loop"
    /\ ti > Len(terms)
    /\ idfs' = c_idfs
    /\ pc' = IF caller = "main" THEN "main_init" ELSE "idf_done"
    /\ normalized_docs' = <<>> /\ c_idfs' = <<>> /\ ti' = 0
    /\ UNCHANGED <<cnvvars, modvars, callctx, exc, idfargs, clsvars, drvvars>>

(***************************************************************************)
(* classify(text, idfs), lines 180-228.                                    *)
(***************************************************************************)
\* line 173
_MIN_SCORE == 1

\* where a finished or failed call of classify goes on
ClassifyDonePc == IF caller = "main" THEN "main_record" ELSE "cls_done"

\* (mutant) whether some token contains the keyword: 1 or 0
TermFrequencyBinary(keyword, inf) ==
    IF \E i \in 1..Len(inf) : Contains(keyword, inf[i]) THEN 1 ELSE 0

\* sum(1 for word in info if keyword in word)
TermFrequency(keyword, inf) ==
    Cardinality({i \in 1..Len(inf) : Contains(keyword, inf[i])})

\* lines 192-197 for one topic: the sum of term_frequency * idfs[keyword]
\* over the keywords found in some token
RECURSIVE RawScore(_, _, _, _)
RawScore(keywords, k, inf, tab) ==
    IF k > Len(keywords) THEN 0
    ELSE LET tf == TermFrequency(keywords[k], inf)
         IN  (IF tf > 0 THEN tf * tab[keywords[k]] ELSE 0)
             + RawScore(keywords, k + 1, inf, tab)

\* (mutant) the logarithm without the leading 1
DampenLogOnly(raw) == Ln(SCALE + raw)

\* 1 + math.log(1 + raw)
Dampen(raw) == SCALE + Ln(SCALE + raw)

\* lines 198-199: a raw score of zero is left as it is, any other is
\* dampened; math.log raises ValueError when 1 + raw <= 0
RawOutcome(raw) ==
    IF raw = 0 THEN [err |-> <<>>, score |-> 0]
    ELSE IF SCALE + raw <= 0
    THEN [err |-> <<"ValueError", "math domain error">>, score |-> 0]
    ELSE [err |-> <<>>, score |-> Dampen(raw)]

\* (mutant) a missing weight counts as 0: idfs.get(keyword, 0)
TopicOutcomeGetDefault(keywords, inf, tab) ==
    LET tab0 == [kw \in Range(keywords) \cup DOMAIN tab |->
                    IF kw \in DOMAIN tab THEN tab[kw] ELSE 0]
    IN  CHOOSE r \in {RawOutcome(raw) : raw \in {RawScore(keywords, 1, inf, tab0)}} : TRUE

\* lines 192-199 for one topic: the exception raised, or <<>> and the
\* entry left in scores.  A KeyError comes from the first keyword found in
\* a token and missing from idfs
TopicOutcome(keywords, inf, tab) ==
    LET missing == {k \in 1..Len(keywords) :
                        /\ keywords[k] \notin DOMAIN tab
                        /\ TermFrequency(keywords[k], inf) > 0}
    IN  IF missing # {}
        THEN [err |-> <<"KeyError", keywords[Nth(missing, 1)]>>, score |-> 0]
        ELSE CHOOSE r \in {RawOutcome(raw) : raw \in {RawScore(keywords, 1, inf, tab)}} : TRUE

\* lines 189-199: tokens, then a score for every topic of _KEYWORDS; the
\* first topic (in dict order) that raises ends the call
ClassifyScore ==
    /\ pc = "classify"
    /\ \E inf \in {MapNormalize(Split(text))} :
       \E out \in {[id \in DOMAIN _KEYWORDS |-> TopicOutcome(_KEYWORDS[id], inf, idfs)]} :
       \E failing \in {{i \in 1..Len(dict_order) :
                          /\ dict_order[i] \in DOMAIN out
                          /\ out[dict_order[i]].err # <<>>}} :
           IF failing # {}
           THEN /\ exc' = out[dict_order[Nth(failing, 1)]].err
                /\ pc' = "raised"
                /\ info' = <<>> /\ scores' = <<>>
           ELSE /\ info' = inf
                /\ scores' = [id \in DOMAIN _KEYWORDS |-> out[id].score]
                /\ pc' = "cls_scored"
                /\ exc' = exc
    /\ UNCHANGED <<cnvvars, modvars, callctx, idfargs, idflocals, idfs, text, depth, classes, drvvars>>

Max(S) == CHOOSE x \in S : \A y \in S : y <= x

\* (mutant) the best candidate first: sorted(..., reverse=True)
SortedByScoreReversed(items) ==
    LET Rank(i) == Cardinality({j \in 1..Len(items) :
                        \/ items[j][2] > items[i][2]
                        \/ (items[j][2] = items[i][2] /\ j < i)}) + 1
    IN  Tuple([k \in 1..Len(items) |-> items[CHOOSE i \in 1..Len(items) : Rank(i) = k]])

\* (mutant) the first pass is the one for the depth below the deepest key
StartDepthNoPlusOne(sc) == Max({Len(id) : id \in DOMAIN sc})

\* line 211: max(len(id) for id in scores) + 1
StartDepth(sc) == Max({Len(id) : id \in DOMAIN sc}) + 1

\* sorted(items, key=lambda i: i[1]): a stable sort by the second component
SortedByScore(items) ==
    LET Rank(i) == Cardinality({j \in 1..Len(items) :
                        \/ items[j][2] < items[i][2]
                        \/ (items[j][2] = items[i][2] /\ j < i)}) + 1
    IN  Tuple([k \in 1..Len(items) |-> items[CHOOSE i \in 1..Len(items) : Rank(i) = k]])

\* lines 201-211: the empty Score Map returns []; else depth starts one
\* below the deepest key
ClassifyStartPrune ==
    /\ pc = "cls_scored"
    /\ IF DOMAIN scores = {}
       THEN /\ classes' = <<>>
            /\ pc' = ClassifyDonePc
            /\ info' = <<>> /\ depth' = 0
       ELSE /\ depth' = StartDepth(scores)
            /\ pc' = "cls_prune"
            /\ UNCHANGED <<info, classes>>
    /\ UNCHANGED <<cnvvars, modvars, callctx, exc, idfargs, idflocals, idfs, text, scores, drvvars>>

\* (mutant) the parent gets the whole score: `scores[parent] += score`
PruneItemUndivided(st, item, d) ==
    LET id == item[1]
        score == item[2]
    IN  IF st.err # <<>> \/ Len(id) # d \/ ~(score < _MIN_SCORE * SCALE)
        THEN st
        ELSE IF score > 0 /\ d > 1
             THEN [st EXCEPT !.sc = Del(Put(st.sc, Parent(id),
                                            Get0(st.sc, Parent(id)) + score), id)]
             ELSE [st EXCEPT !.sc = Del(st.sc, id)]

\* (mutant) a key that is removed takes the keys below it along
PruneItemSubtree(st, item, d) ==
    LET id == item[1]
        score == item[2]
        DelTree(sc) == [x \in {k \in DOMAIN sc : ~(Len(k) >= Len(id)
                                                   /\ SubSeq(k, 1, Len(id)) = id)} |-> sc[x]]
    IN  IF st.err # <<>> \/ Len(id) # d \/ ~(score < _MIN_SCORE * SCALE)
        THEN st
        ELSE IF score > 0 /\ d > 1
             THEN LET parent == Parent(id)
                      n == Get0(st.nc, parent)
                      nc2 == Put(st.nc, parent, n)
                  IN  IF n = 0
                      THEN [sc |-> st.sc, nc |-> nc2,
                            err |-> <<"ZeroDivisionError", _s(parent)>>]
                      ELSE [sc |-> DelTree(Put(st.sc, parent,
                                               Get0(st.sc, parent) + score \div n)),
                            nc |-> nc2, err |-> <<>>]
             ELSE [st EXCEPT !.sc = DelTree(st.sc)]

\* (mutant) the child count is bumped by every redistribution:
\* `_NUM_CHILDREN[parent] += 1` before the division
PruneItemCounting(st, item, d) ==
    LET id == item[1]
        score == item[2]
    IN  IF st.err # <<>> \/ Len(id) # d \/ ~(score < _MIN_SCORE * SCALE)
        THEN st
        ELSE IF score > 0 /\ d > 1
             THEN LET parent == Parent(id)
                      n == Get0(st.nc, parent) + 1
                  IN  [sc |-> Del(Put(st.sc, parent,
                                      Get0(st.sc, parent) + score \div n), id),
                       nc |-> Put(st.nc, parent, n), err |-> <<>>]
             ELSE [st EXCEPT !.sc = Del(st.sc, id)]

\* (mutant) `del scores[id]` indented under `if score > 0`
PruneItemDelIndented(st, item, d) ==
    LET id == item[1]
        score == item[2]
    IN  IF st.err # <<>> \/ Len(id) # d \/ ~(score < _MIN_SCORE * SCALE) \/ ~(score > 0)
        THEN st
        ELSE IF d > 1
             THEN LET parent == Parent(id)
                      n == Get0(st.nc, parent)
                      nc2 == Put(st.nc, parent, n)
                  IN  IF n = 0
                      THEN [sc |-> st.sc, nc |-> nc2,
                            err |-> <<"ZeroDivisionError", _s(parent)>>]
                      ELSE [sc |-> Del(Put(st.sc, parent,
                                           Get0(st.sc, parent) + score \div n), id),
                            nc |-> nc2, err |-> <<>>]
             ELSE [st EXCEPT !.sc = Del(st.sc, id)]

\* lines 216-226 for one (id, score) of the copied items; st holds the
\* Score Map, _NUM_CHILDREN and the exception raised so far
PruneItem(st, item, d) ==
    LET id == item[1]
        score == item[2]
    IN  IF st.err # <<>> \/ Len(id) # d \/ ~(score < _MIN_SCORE * SCALE)
        THEN st
        ELSE IF score > 0 /\ d > 1
             THEN LET parent == Parent(id)
                      n == Get0(st.nc, parent)
                      nc2 == Put(st.nc, parent, n)
                  IN  IF n = 0
                      THEN [sc |-> st.sc, nc |-> nc2,
                            err |-> <<"ZeroDivisionError", _s(parent)>>]
                      ELSE [sc |-> Del(Put(st.sc, parent,
                                           Get0(st.sc, parent) + score \div n), id),
                            nc |-> nc2, err |-> <<>>]
             ELSE [st EXCEPT !.sc = Del(st.sc, id)]

RECURSIVE PruneFold(_, _, _, _)
PruneFold(st, items, i, d) ==
    IF i > Len(items) THEN st
    ELSE PruneFold(PruneItem(st, items[i], d), items, i + 1, d)

\* lines 212-226: one iteration of `while depth > 1`, a pass over a copy
\* of the items
ClassifyPass ==
    /\ pc = "cls_prune"
    /\ depth > 1
    /\ LET d == depth - 1
           st == PruneFold([sc |-> scores, nc |-> _NUM_CHILDREN, err |-> <<>>],
                           Items(scores), 1, d)
       IN  /\ _NUM_CHILDREN' = st.nc
           /\ IF st.err # <<>>
              THEN /\ exc' = st.err
                   /\ pc' = "raised"
                   /\ info' = <<>> /\ scores' = <<>> /\ depth' = 0
              ELSE /\ scores' = st.sc
                   /\ depth' = d
                   /\ UNCHANGED <<pc, exc, info>>
    /\ UNCHANGED <<cnvvars, _KEYWORDS, dict_order, load, callctx, idfargs, idflocals, idfs, text,
                   classes, drvvars>>

\* line 228: return sorted(scores.items(), key=lambda i: i[1])
ClassifyReturn ==
    /\ pc = "cls_prune"
    /\ depth <= 1
    /\ classes' = SortedByScore(Items(scores))
    /\ pc' = ClassifyDonePc
    /\ info' = <<>> /\ scores' = <<>> /\ depth' = 0
    /\ UNCHANGED <<cnvvars, modvars, callctx, exc, idfargs, idflocals, idfs, text, drvvars>>

(***************************************************************************)
(* SpecClassify: one call of classify on any text over the vocabulary and  *)
(* any IDF table over the keywords the vocabulary can match.               *)
(***************************************************************************)
Vocabulary == {"Kunst", "Dichter", "Musikhaus", "der"}

\* the texts: up to MaxTokens words, and some with other whitespace
Texts ==
    {JoinWith(" ", ws) : ws \in SeqsOf(Vocabulary, 0, MaxTokens)}
        \cup {"  ", " Kunst\tDICHTER\n"}

\* the keywords some word of the vocabulary contains
MatchableKeywords ==
    {kw \in UNION {Range(LoadedKeywords[id]) : id \in TopicIds} :
        \E w \in Vocabulary : Contains(kw, _normalize(w))}

\* weights a table may hold: 1.0, 0.25 and -0.5
IdfWeights == {SCALE, SCALE \div 4, -(SCALE \div 2)}

IdfTables == UNION {[K -> IdfWeights] : K \in SUBSET MatchableKeywords}

InitClassify ==
    /\ ModuleLoaded
    /\ pc = "classify"
    /\ caller = "none"
    /\ exc = <<>>
    /\ NoIdfCall
    /\ idfs \in IdfTables
    /\ text \in Texts
    /\ info = <<>> /\ scores = <<>> /\ depth = 0 /\ classes = <<>>
    /\ NoDriver
    /\ NoConverter
    /\ SingleCall

NextClassify == ClassifyScore \/ ClassifyStartPrune \/ ClassifyPass \/ ClassifyReturn

SpecClassify == InitClassify /\ [][NextClassify]_vars

(***************************************************************************)
(* SpecPrune: one call of classify on texts that match the sibling topics  *)
(* N/P and N/A, the root topic M, and A with its subtopic A/L, with tables *)
(* that give a keyword either the weight 1.0 or a negative weight that     *)
(* leaves its topic a positive score below _MIN_SCORE.                     *)
(***************************************************************************)
PruneWords == <<"Blume", "Vogel", "Feldzug", "Kunst", "Dichter">>

\* 1 + ln(1 + w): about 0.40 (blume, dicht), 0.64 (vogel), 0.49 (feldzug),
\* 0.95 (kunst)
WeakWeight ==
    [blume   |-> -((9 * SCALE) \div 20),
     vogel   |-> -((3 * SCALE) \div 10),
     feldzug |-> -((2 * SCALE) \div 5),
     kunst   |-> -(SCALE \div 20),
     dicht   |-> -((9 * SCALE) \div 20)]

PruneTexts ==
    {JoinWith(" ", SelectSeq(PruneWords, LAMBDA w : w \in S)) : S \in SUBSET Range(PruneWords)}

PruneTables ==
    {[kw \in DOMAIN WeakWeight |-> IF kw \in W THEN WeakWeight[kw] ELSE SCALE] :
        W \in SUBSET DOMAIN WeakWeight}

InitPrune ==
    /\ ModuleLoaded
    /\ pc = "classify"
    /\ caller = "none"
    /\ exc = <<>>
    /\ NoIdfCall
    /\ idfs \in PruneTables
    /\ text \in PruneTexts
    /\ info = <<>> /\ scores = <<>> /\ depth = 0 /\ classes = <<>>
    /\ NoDriver
    /\ NoConverter
    /\ SingleCall

SpecPrune == InitPrune /\ [][NextClassify]_vars

(***************************************************************************)
(* SpecClassifyTwice: a caller classifies a text, keeps the outcome, and   *)
(* classifies the same text with the same table again.                     *)
(***************************************************************************)
\* what the caller got from the call that just ended
ClassifyOutcome == IF pc = "raised" THEN <<"raised", exc>> ELSE <<"returned", classes>>

\* tables with a weight of 1.0 or -0.5 for every keyword the vocabulary
\* can match
SignedTables == [MatchableKeywords -> {SCALE, -(SCALE \div 2)}]

InitClassifyTwice == InitClassify /\ idfs \in SignedTables

\* the caller notes the outcome and calls again with the same arguments
ClassifyAgain ==
    /\ pc \in {"cls_done", "raised"}
    /\ Len(history) + 1 < MaxCalls
    /\ history' = Append(history, ClassifyOutcome)
    /\ pc' = "classify"
    /\ exc' = <<>>
    /\ classes' = <<>>
    /\ UNCHANGED <<cnvvars, modvars, caller, parked, idfargs, idflocals, idfs, text, info,
                   scores, depth, drvvars>>

NextClassifyTwice ==
    ClassifyScore \/ ClassifyStartPrune \/ ClassifyPass \/ ClassifyReturn \/ ClassifyAgain

SpecClassifyTwice == InitClassifyTwice /\ [][NextClassifyTwice]_vars

(***************************************************************************)
(* SpecInterleaved: two calls of classify that share the module tables and *)
(* one IDF table.  Each call is first run alone, then both are run again,  *)
(* the interpreter switching from one to the other between any two steps.  *)
(* A call that is not running keeps its frame in `parked`.                 *)
(***************************************************************************)
InterleavedTexts == {"Kunst Dichter", "Dichter Musikhaus", "Musikhaus", "der"}

\* the frame of call w of classify(t, idfs), not yet started
NewFrame(w, t) ==
    [who |-> w, pc |-> "classify", exc |-> <<>>, text |-> t, info |-> <<>>,
     scores |-> <<>>, depth |-> 0, classes |-> <<>>]

\* the frame of the running call, which is the one that is not parked
RunningFrame ==
    [who |-> 3 - parked[1].who, pc |-> pc, exc |-> exc, text |-> text, info |-> info,
     scores |-> scores, depth |-> depth, classes |-> classes]

\* the frame f becomes the running one
Resume(f) ==
    /\ pc' = f.pc /\ exc' = f.exc /\ text' = f.text /\ info' = f.info
    /\ scores' = f.scores /\ depth' = f.depth /\ classes' = f.classes

InitInterleaved ==
    /\ ModuleLoaded
    /\ pc = "classify"
    /\ caller = "none"
    /\ exc = <<>>
    /\ NoIdfCall
    /\ idfs \in SignedTables
    /\ text \in InterleavedTexts
    /\ info = <<>> /\ scores = <<>> /\ depth = 0 /\ classes = <<>>
    /\ NoDriver
    /\ NoConverter
    /\ history = <<>>
    /\ \E t \in InterleavedTexts : parked = <<NewFrame(2, t)>>

\* a call run alone has ended: its outcome is noted and the other call is
\* started
AloneDone ==
    /\ Len(history) < 2
    /\ pc \in {"cls_done", "raised"}
    /\ history' = Append(history, ClassifyOutcome)
    /\ Resume(parked[1])
    /\ parked' = <<NewFrame(3 - parked[1].who, text)>>
    /\ UNCHANGED <<cnvvars, modvars, caller, idfargs, idflocals, idfs, drvvars>>

\* the interpreter switches to the other call
Switch ==
    /\ Len(history) = 2
    /\ parked[1].pc \notin {"cls_done", "raised"}
    /\ Resume(parked[1])
    /\ parked' = <<RunningFrame>>
    /\ UNCHANGED <<cnvvars, modvars, caller, history, idfargs, idflocals, idfs, drvvars>>

NextInterleaved ==
    \/ ClassifyScore \/ ClassifyStartPrune \/ ClassifyPass \/ ClassifyReturn
    \/ AloneDone \/ Switch

SpecInterleaved == InitInterleaved /\ [][NextInterleaved]_vars

(***************************************************************************)
(* SpecIdf: one call of calculate_inverse_document_frequencies on any      *)
(* terms and documents of the pools.                                       *)
(***************************************************************************)
TermPool == {"Fluss", "haus", "xyz", "s am"}
DocPool == {"Der Fluss", "Musikhaus am FLUSS", ""}

InitIdf ==
    /\ ModuleLoaded
    /\ pc = "idf_enter"
    /\ caller = "none"
    /\ exc = <<>>
    /\ terms \in SeqsOf(TermPool, 0, MaxTerms)
    /\ docs \in SeqsOf(DocPool, 0, MaxDocs)
    /\ docs_gen \in BOOLEAN
    /\ docs_used = FALSE
    /\ normalized_docs = <<>> /\ c_idfs = <<>> /\ ti = 0
    /\ idfs = <<>>
    /\ NoClsCall
    /\ NoDriver
    /\ NoConverter
    /\ SingleCall

NextIdf == IdfEnter \/ IdfTerm \/ IdfReturn

SpecIdf == InitIdf /\ [][NextIdf]_vars

(***************************************************************************)
(* SpecIdfTwice: a caller computes the table, keeps the outcome, and       *)
(* computes it again from the same two objects (as the driver could from   *)
(* all_keywords and all_infos, lines 239-241).                             *)
(***************************************************************************)
\* what the caller got from the call that just ended
IdfOutcome == IF pc = "raised" THEN <<"raised", exc>> ELSE <<"returned", idfs>>

\* the caller notes the outcome and calls again with the same arguments
IdfAgain ==
    /\ pc \in {"idf_done", "raised"}
    /\ Len(history) + 1 < MaxCalls
    /\ history' = Append(history, IdfOutcome)
    /\ pc' = "idf_enter"
    /\ exc' = <<>>
    /\ idfs' = <<>>
    /\ UNCHANGED <<cnvvars, modvars, caller, parked, idfargs, idflocals, clsvars, drvvars>>

NextIdfTwice == IdfEnter \/ IdfTerm \/ IdfReturn \/ IdfAgain

SpecIdfTwice == InitIdf /\ [][NextIdfTwice]_vars

(***************************************************************************)
(* The driver, lines 231-257.                                              *)
(***************************************************************************)
\* Python's None (a topic id is never the empty tuple)
None == <<>>

\* the concatenation of the sequences of qs (by halves)
RECURSIVE Flatten(_)
Flatten(qs) ==
    IF Len(qs) = 0 THEN <<>>
    ELSE IF Len(qs) = 1 THEN qs[1]
    ELSE LET h == Len(qs) \div 2
         IN  Flatten(SubSeq(qs, 1, h)) \o Flatten(SubSeq(qs, h + 1, Len(qs)))

\* the keys of raw_data.json the model uses, in the order the dict yields them
NamePool == <<"Kunstweg", "Am Fluss", "Dichterweg", "Hausgasse">>
StreetNames == Range(Prefix(NamePool, MaxStreets))

\* an info text that mentions every keyword of the taxonomy
Glossary == JoinWith(" ", Flatten([i \in 1..Len(KeyOrder) |-> LoadedKeywords[KeyOrder[i]]]))

\* the info texts of the entities
InfoPool == {Glossary, "Dichter dichter Kunst", "Musikhaus", "in der"}

\* the contents raw_data.json may have
Corpora == UNION {[N -> [info : InfoPool]] : N \in SUBSET StreetNames}

\* lines 239-241: all_keywords, the generator all_infos, and the call
MainCallIdf ==
    /\ pc = "main"
    /\ terms' = Flatten([k \in 1..Len(Items(_KEYWORDS)) |-> Items(_KEYWORDS)[k][2]])
    /\ docs' = LET ns == SelectSeq(NamePool, LAMBDA n : n \in DOMAIN streets)
               IN  Tuple([k \in 1..Len(ns) |-> streets[ns[k]].info])
    /\ docs_gen' = TRUE
    /\ docs_used' = FALSE
    /\ pc' = "idf_enter"
    /\ UNCHANGED <<cnvvars, modvars, callctx, exc, idflocals, idfs, clsvars, drvvars>>

\* (mutant) the last candidate's topic
ChosenLast(cl) == IF cl # <<>> THEN cl[Len(cl)][1] ELSE None

\* lines 246-249: classes[0][0] if classes else None
Chosen(cl) == IF cl # <<>> THEN cl[1][1] ELSE None

\* lines 243-244: classification = {}, and the loop over the entities begins
MainInitLoop ==
    /\ pc = "main_init"
    /\ classification' = <<>>
    /\ pending' = DOMAIN streets
    /\ pc' = "main_loop"
    /\ UNCHANGED <<cnvvars, modvars, callctx, exc, idfargs, idflocals, idfs, clsvars,
                   streets, name, printed, written>>

\* lines 244-245: the next entity (in the dict's order, any) is classified
MainNext ==
    /\ pc = "main_loop"
    /\ \E n \in pending :
          /\ name' = n
          /\ pending' = pending \ {n}
          /\ text' = streets[n].info
    /\ pc' = "classify"
    /\ UNCHANGED <<cnvvars, modvars, callctx, exc, idfargs, idflocals, idfs, info, scores,
                   depth, classes, streets, classification, printed, written>>

\* (mutant) only an entity with a candidate gets an entry:
\* `if classes: classification[name] = classes[0][0]`
MainRecordSkipNone ==
    /\ pc = "main_record"
    /\ classification' = IF classes # <<>> THEN Put(classification, name, Chosen(classes))
                         ELSE classification
    /\ pc' = "main_loop"
    /\ UNCHANGED <<cnvvars, modvars, callctx, exc, idfargs, idflocals, idfs, clsvars,
                   streets, pending, name, printed, written>>

\* lines 246-250: classification[name] = cls
MainRecord ==
    /\ pc = "main_record"
    /\ classification' = Put(classification, name, Chosen(classes))
    /\ pc' = "main_loop"
    /\ UNCHANGED <<cnvvars, modvars, callctx, exc, idfargs, idflocals, idfs, clsvars,
                   streets, pending, name, printed, written>>

\* json.dump of one value of classification: None becomes null, a tuple
\* of strings becomes an array of strings
ToJson(cls) ==
    IF cls = None THEN [type |-> "null"] ELSE [type |-> "array", items |-> cls]

\* lines 252-257: the entities without classification are printed and
\* classification.json is written
MainReport ==
    /\ pc = "main_loop"
    /\ pending = {}
    /\ printed' = {n \in DOMAIN classification : classification[n] = None}
    /\ written' = <<[n \in DOMAIN classification |-> ToJson(classification[n])]>>
    /\ pc' = "exit"
    /\ UNCHANGED <<cnvvars, modvars, callctx, exc, idfargs, idflocals, idfs, clsvars,
                   streets, pending, name, classification>>

(***************************************************************************)
(* Spec: a run of the driver on any raw_data.json of the pool.             *)
(***************************************************************************)
Init ==
    /\ ModuleLoaded
    /\ pc = "main"
    /\ caller = "main"
    /\ exc = <<>>
    /\ NoIdfCall
    /\ idfs = <<>>
    /\ NoClsCall
    /\ streets \in Corpora
    /\ pending = {} /\ name = "" /\ classification = <<>>
    /\ printed = {} /\ written = <<>>
    /\ SingleCall
    /\ NoConverter

Next ==
    \/ MainCallIdf \/ IdfEnter \/ IdfTerm \/ IdfReturn
    \/ MainInitLoop \/ MainNext
    \/ ClassifyScore \/ ClassifyStartPrune \/ ClassifyPass \/ ClassifyReturn
    \/ MainRecord \/ MainReport

Spec == Init /\ [][Next]_vars

(***************************************************************************)
(* src/extract_raw_data.py (the same lines are in                          *)
(* src/extract_streetname_data.py): collapse_ws and the Converter that     *)
(* pdfminer's page interpreter drives in extract_entries.                  *)
(***************************************************************************)
\* render_string calls of one run of extract_entries
MaxRender == 3

\* U+00A0 NO-BREAK SPACE
NBSP == " "

\* the characters unicode.strip() removes and \s matches under re.UNICODE
UnicodeSpaces == {" ", "\t", "\n", "\r", "\f", NBSP}

\* the characters \s matches without re.UNICODE
AsciiSpaces == {" ", "\t", "\n", "\r", "\f"}

\* FLAGS = re.UNICODE | re.IGNORECASE = 32 | 2
FLAGS == 34

\* s.strip()
strip(s) ==
    LET keep == {i \in 1..Len(s) : Char(s, i) \notin UnicodeSpaces}
    IN  IF keep = {} THEN ""
        ELSE SubSeq(s, CHOOSE i \in keep : \A j \in keep : i <= j, Max(keep))

\* the starts of the maximal runs of characters of ws in s
RunStarts(ws, s) ==
    {i \in 1..Len(s) : Char(s, i) \in ws /\ (i = 1 \/ Char(s, i - 1) \notin ws)}

\* re.sub(r'\s+', ' ', s, count) where \s matches ws: the first `count`
\* runs (all when count is 0) become one space each
re_sub(ws, s, count) ==
    CHOOSE r \in
        {JoinWith("", Tuple([i \in 1..Len(s) |->
            IF Char(s, i) \notin ws
                  \/ (count # 0 /\ Cardinality({j \in st : j <= i}) > count)
            THEN Char(s, i)
            ELSE IF i \in st THEN " " ELSE ""])) : st \in {RunStarts(ws, s)}} : TRUE

\* collapse_ws(s): FLAGS is passed in the position of re.sub's `count`, so
\* the pattern is compiled without flags and at most FLAGS runs are replaced
collapse_ws(s) == CHOOSE r \in {re_sub(AsciiSpaces, t, FLAGS) : t \in {strip(s)}} : TRUE

HEADER_STRINGS == <<"Liegenschaftsamt", "Straßennamen in Karlsruhe">>

\* {'header': '', 'previous': '', 'info': ''}
BlankEntry == [header |-> "", previous |-> "", info |-> ""]

\* _store_entry() on the fields es (entries) and e (_entry)
_store_entry(es, e) ==
    IF e # None
    THEN LET c == CHOOSE r \in {[k \in DOMAIN e |-> collapse_ws(e[k])]} : TRUE
         IN  [entries |-> IF Len(c.header) > 1 /\ c.header \notin Range(HEADER_STRINGS)
                          THEN Append(es, c)
                          ELSE es,
              entry   |-> BlankEntry]
    ELSE [entries |-> es, entry |-> BlankEntry]

\* s.endswith(suffix)
EndsWith(s, suffix) ==
    Len(s) >= Len(suffix) /\ SubSeq(s, Len(s) - Len(suffix) + 1, Len(s)) = suffix

\* the text of a render_string call: the characters of the string items of
\* seq (already decoded by the font), the numbers between them skipped
SeqText(seq) ==
    JoinWith("", Tuple([i \in 1..Len(seq) |->
                           IF seq[i].type = "str" THEN seq[i].value ELSE ""]))

Str(v) == [type |-> "str", value |-> v]
Num(v) == [type |-> "int", value |-> v]

\* text states of the PDF: the bold, the light and the sheared (italic) font
BoldState   == [font |-> [basefont |-> "Frutiger-Bd"], matrix |-> <<1000, 0, 0, 1000, 0, 0>>]
LightState  == [font |-> [basefont |-> "Frutiger-Lt"], matrix |-> <<1000, 0, 0, 1000, 0, 0>>]
ItalicState == [font |-> [basefont |-> "Frutiger-Lt"], matrix |-> <<1000, 0, 333, 1000, 0, 0>>]

\* a header of FLAGS + 2 words, two spaces between each two
LongHeader == JoinWith("  ", Tuple([i \in 1..(FLAGS + 2) |-> "a"]))

\* the render_string calls a page can make
RenderCalls ==
    {[textstate |-> BoldState, seq |-> q] :
        q \in {<<Str("Ahaweg")>>,
               <<Str("Am"), Num(-250), Str("  Wald ")>>,
               <<Str("Liegenschaftsamt ")>>,
               <<Str("B")>>,
               <<Str("Am" \o NBSP \o NBSP \o "Tor")>>,
               <<Str(LongHeader)>>}}
    \cup {[textstate |-> LightState, seq |-> <<Str("benannt  nach")>>],
          [textstate |-> ItalicState, seq |-> <<Str("1906 Kirchweg")>>]}

\* self._entry[field] += text
AddText(field, t) ==
    IF _entry = None
    THEN /\ exc' = <<"TypeError", "'NoneType' object has no attribute '__getitem__'">>
         /\ pc' = "cnv_finally"
         /\ UNCHANGED <<entries, _entry>>
    ELSE /\ _entry' = [_entry EXCEPT ![field] = @ \o t]
         /\ UNCHANGED <<entries, pc, exc>>

\* render_string(textstate, seq), called by interpreter.process_page
RenderString ==
    /\ pc = "cnv_pages"
    /\ Len(rendered) < MaxRender
    /\ \E call \in RenderCalls :
          \E textstate \in {call.textstate}, t \in {SeqText(call.seq)} :
              /\ rendered' = Append(rendered, call)
              /\ IF textstate.matrix[3] = 0
                 THEN IF EndsWith(textstate.font.basefont, "Bd")
                      THEN \E st \in {_store_entry(entries, _entry)} :
                              /\ entries' = st.entries
                              /\ _entry' = [st.entry EXCEPT !.header = @ \o t]
                              /\ UNCHANGED <<pc, exc>>
                      ELSE AddText("info", t)
                 ELSE AddText("previous", t)
    /\ UNCHANGED <<modvars, callctx, idfargs, idflocals, idfs, clsvars, drvvars>>

\* the loop over the pages ends
PagesEnd ==
    /\ pc = "cnv_pages"
    /\ pc' = "cnv_finally"
    /\ UNCHANGED <<modvars, callctx, exc, idfargs, idflocals, idfs, clsvars, drvvars, cnvvars>>

\* finally: device.close(), then `return device.entries` or the exception
Close ==
    /\ pc = "cnv_finally"
    /\ \E st \in {_store_entry(entries, _entry)} :
          /\ entries' = st.entries
          /\ _entry' = st.entry
    /\ pc' = IF exc = <<>> THEN "cnv_done" ELSE "raised"
    /\ UNCHANGED <<modvars, callctx, exc, idfargs, idflocals, idfs, clsvars, drvvars, rendered>>

(***************************************************************************)
(* SpecConverter: extract_entries on any PDF whose pages make up to        *)
(* MaxRender of the calls of RenderCalls.                                  *)
(***************************************************************************)
InitConverter ==
    /\ _KEYWORDS = <<>> /\ _NUM_CHILDREN = <<>> /\ dict_order = <<>> /\ load = <<>>
    /\ pc = "cnv_pages"
    /\ caller = "none"
    /\ exc = <<>>
    /\ NoIdfCall
    /\ idfs = <<>>
    /\ NoClsCall
    /\ NoDriver
    /\ SingleCall
    /\ entries = <<>>
    /\ _entry = None
    /\ rendered = <<>>

NextConverter == RenderString \/ PagesEnd \/ Close

SpecConverter == InitConverter /\ [][NextConverter]_vars

(***************************************************************************)
(* Claims about the module tables (under SpecLoad).                        *)
(***************************************************************************)
\* C22: once the module body has run, whatever the order of the _add_kws
\* calls and of the counting loop, _NUM_CHILDREN gives every id p the
\* number of keys of _KEYWORDS longer than one component whose id without
\* the last component is p, and 0 (no entry) when there is none; H, which
\* has no keywords, gets 3 and N gets 2.  The tables are the ones every
\* call starts from.
C22_ChildCounts ==
    pc = "loaded" =>
        /\ \A p \in AllIds \cup {<<>>} :
              Get0(_NUM_CHILDREN, p)
                  = Cardinality({id \in DOMAIN _KEYWORDS : Len(id) > 1 /\ Parent(id) = p})
        /\ \A p \in DOMAIN _NUM_CHILDREN : _NUM_CHILDREN[p] > 0
        /\ <<"H">> \notin DOMAIN _KEYWORDS /\ Get0(_NUM_CHILDREN, <<"H">>) = 3
        /\ <<"N">> \notin DOMAIN _KEYWORDS /\ Get0(_NUM_CHILDREN, <<"N">>) = 2
        /\ _KEYWORDS = LoadedKeywords
        /\ _NUM_CHILDREN = LoadedNumChildren

\* the module body has run: six parents have a count, G's is 7
C22_Witness ==
    /\ pc = "loaded"
    /\ DOMAIN _NUM_CHILDREN = {<<"A">>, <<"E">>, <<"G">>, <<"H">>, <<"N">>, <<"S">>}
    /\ _NUM_CHILDREN[<<"G">>] = 7

(***************************************************************************)
(* Claims about classify (under SpecClassify).                             *)
(***************************************************************************)
\* no keyword of the taxonomy is a substring of a (lowercased) token of text
NoKeywordInText ==
    \A inf \in {MapNormalize(Split(text))} :
        \A id \in TopicIds : \A k \in 1..Len(LoadedKeywords[id]) :
            \A i \in 1..Len(inf) : ~Contains(LoadedKeywords[id][k], inf[i])

\* a is a proper ancestor of b
StrictPrefix(a, b) == Len(a) < Len(b) /\ SubSeq(b, 1, Len(a)) = a

\* the scores of the list q never decrease / never increase
Ascending(q) == \A i, j \in 1..Len(q) : i < j => q[i][2] <= q[j][2]
Descending(q) == \A i, j \in 1..Len(q) : i < j => q[i][2] >= q[j][2]

\* C1: a call of classify on a text none of whose tokens contains a keyword
\* raises nothing, whatever the IDF table holds, and returns the empty list.
C1_NoMatchGivesEmpty ==
    (pc \in {"raised", "cls_done"} /\ NoKeywordInText) =>
        /\ pc = "cls_done" /\ exc = <<>>
        /\ classes = <<>>

\* classify has returned for a text of two tokens without any keyword,
\* given an IDF table that holds a negative weight
C1_Witness ==
    /\ pc = "cls_done"
    /\ text = "der der"
    /\ \E kw \in DOMAIN idfs : idfs[kw] < 0
    /\ classes = <<>>

\* C2: every pair of the list classify returns has a score >= 1.
C2_ResultScoresAtLeastMin ==
    pc = "cls_done" => \A i \in 1..Len(classes) : classes[i][2] >= SCALE

\* classify has returned two candidates for a text that also matched root
\* topic A, whose score (from a negative weight) stayed below 1
C2_Witness ==
    /\ pc = "cls_done"
    /\ text = "Kunst Musikhaus"
    /\ "kunst" \in DOMAIN idfs /\ idfs["kunst"] < 0
    /\ Len(classes) = 2
    /\ \A i \in 1..Len(classes) : classes[i][1] # <<"A">>

C4_ResultDescending == pc = "cls_done" => Descending(classes)

Tokens == MapNormalize(Split(text))

\* the positions, in topic id's keyword list, of the keywords found in some
\* token of inf
MatchedAt(id, inf) ==
    {k \in 1..Len(LoadedKeywords[id]) :
        \E i \in 1..Len(inf) : Contains(LoadedKeywords[id][k], inf[i])}

\* the topics with a keyword in some token of inf
MatchedTopics(inf) == {id \in TopicIds : MatchedAt(id, inf) # {}}

\* the number of tokens of inf that contain kw, times tab[kw], summed over
\* the keywords of topic id at the positions K
RECURSIVE SumTfIdf(_, _, _, _)
SumTfIdf(id, K, inf, tab) ==
    IF K = {} THEN 0
    ELSE LET k  == CHOOSE x \in K : TRUE
             kw == LoadedKeywords[id][k]
         IN  Cardinality({i \in 1..Len(inf) : Contains(kw, inf[i])}) * tab[kw]
             + SumTfIdf(id, K \ {k}, inf, tab)

\* C14: when the tokens of the text match keywords of exactly one topic T
\* and the table gives each of these a weight > 0, classify raises nothing
\* and returns the one-element list <<T, 1 + ln(1 + raw)>>, raw being the
\* sum of term_frequency * idf over T's matching keywords.
C14_SingleTopicMatch ==
    pc \in {"raised", "cls_done"} =>
        \A inf \in {Tokens} : \A M \in {MatchedTopics(inf)} :
            (/\ Cardinality(M) = 1
             /\ \A T \in M : \A k \in MatchedAt(T, inf) :
                   /\ LoadedKeywords[T][k] \in DOMAIN idfs
                   /\ idfs[LoadedKeywords[T][k]] > 0)
            => /\ pc = "cls_done"
               /\ \A T \in M :
                     classes = << <<T, SCALE + Ln(SCALE
                                         + SumTfIdf(T, MatchedAt(T, inf), inf, idfs))>> >>

\* classify has returned the single candidate A/L for a text whose two
\* tokens match only A/L's keyword dicht, of weight 0.25 (raw score 0.5)
C14_Witness ==
    /\ pc = "cls_done"
    /\ text = "Dichter Dichter"
    /\ "dicht" \in DOMAIN idfs /\ idfs["dicht"] = SCALE \div 4
    /\ Len(classes) = 1
    /\ classes[1][1] = <<"A", "L">>
    /\ classes[1][2] > SCALE /\ classes[1][2] < 2 * SCALE

\* some keyword found in a token of inf has no entry in the table
MatchedKeywordMissing(inf) ==
    \E id \in TopicIds : \E k \in MatchedAt(id, inf) :
        LoadedKeywords[id][k] \notin DOMAIN idfs

\* C17: given a table of weights > 0, a call of classify raises KeyError,
\* and so returns no list, exactly when a keyword found in some token of
\* the text has no entry in the table; keywords missing from the table but
\* found in no token do not matter.
C17_KeyErrorIffMatchedMissing ==
    (pc \in {"raised", "cls_done"} /\ \A kw \in DOMAIN idfs : idfs[kw] > 0) =>
        /\ pc = "raised" => (exc[1] = "KeyError" /\ classes = <<>>)
        /\ (pc = "raised") <=> MatchedKeywordMissing(Tokens)

\* classify has raised KeyError for dicht, found in the text and missing
\* from a table that holds kunst (musik and haus, found in no token, are
\* missing too)
C17_Witness ==
    /\ pc = "raised"
    /\ exc = <<"KeyError", "dicht">>
    /\ text = "Kunst Dichter"
    /\ DOMAIN idfs = {"kunst"}
    /\ idfs["kunst"] > 0

\* every weight of the table is > 0, as the weights 1/n of an IDF table are
PositiveWeights == \A kw \in DOMAIN idfs : idfs[kw] > 0

NoWeakEntry ==
    pc \in {"cls_scored", "cls_prune"} =>
        \A id \in DOMAIN scores : scores[id] = 0 \/ scores[id] >= _MIN_SCORE * SCALE

\* the list returned holds exactly the topics with a keyword in the text,
\* each with its own dampened score, and neither H nor N
ResultIsMatchedTopics ==
    pc = "cls_done" =>
        \A inf \in {Tokens} :
            /\ {classes[i][1] : i \in 1..Len(classes)} = MatchedTopics(inf)
            /\ \A i \in 1..Len(classes) :
                  \A id \in {classes[i][1]} :
                      /\ id \in TopicIds
                      /\ id \notin {<<"H">>, <<"N">>}
                      /\ \A j \in 1..Len(classes) : classes[j][1] = id => j = i
                      /\ classes[i][2]
                            = SCALE + Ln(SCALE + SumTfIdf(id, MatchedAt(id, inf), inf, idfs))

Recorded == pc \in {"main_loop", "exit"} /\ name # ""

\* the score a list of candidates gives to a topic
ScoreIn(cl, id) == cl[CHOOSE i \in 1..Len(cl) : cl[i][1] = id][2]

\* C5 (as claimed): the topic recorded for an entity is never a proper
\* ancestor of a candidate that survived pruning.
C5_MostSpecific ==
    Recorded =>
        \A i \in 1..Len(classes) : ~StrictPrefix(classification[name], classes[i][1])

C8_ChosenHasMostPoints ==
    (Recorded /\ classes # <<>>) =>
        \A i \in 1..Len(classes) :
            ScoreIn(classes, classification[name]) >= classes[i][2]

\* C19 (as claimed): classification.json gives every classified entity the
\* slash-joined path of its topic id, as a string.
C19_WrittenAsPathString ==
    pc = "exit" =>
        \A n \in DOMAIN classification :
            classification[n] # None =>
                written[1][n] = [type |-> "string", value |-> _s(classification[n])]

\* C20: a run that has its IDF table never raises; each recording step adds
\* the entry of the current entity and changes no other; at the end the
\* classification and the file written have one entry per entity of
\* raw_data.json, with None (null) exactly for the entities that were
\* printed as unclassified.
C20_OneEntryPerEntity ==
    /\ [](pc = "raised" => (exc[1] = "ValueError" /\ idfs = <<>> /\ classification = <<>>))
    /\ [][pc = "main_record" =>
            /\ DOMAIN classification' = DOMAIN classification \cup {name}
            /\ \A n \in DOMAIN classification \ {name} :
                  classification'[n] = classification[n]
            /\ classes = <<>> => classification'[name] = None]_vars
    /\ [](pc = "exit" =>
            /\ DOMAIN classification = DOMAIN streets
            /\ DOMAIN written[1] = DOMAIN streets
            /\ printed = {n \in DOMAIN streets : classification[n] = None}
            /\ \A n \in DOMAIN streets :
                  (written[1][n].type = "null") <=> (n \in printed))

\* the run has ended with one entity classified and the other, recorded
\* first, without classification and printed
C20_Witness ==
    /\ pc = "exit"
    /\ Cardinality(DOMAIN streets) = 2
    /\ Cardinality(printed) = 1
    /\ name \notin printed
    /\ \E n \in DOMAIN classification : classification[n] # None

\* some keyword of the taxonomy occurs in no info text of raw_data.json
KeywordInNoInfo ==
    \A ds \in {{_normalize(streets[n].info) : n \in DOMAIN streets}} :
        \E id \in TopicIds : \E k \in 1..Len(LoadedKeywords[id]) :
            \A d \in ds : ~Contains(LoadedKeywords[id][k], d)

\* C21: when some keyword occurs in no info text, the run never gets past
\* the IDF computation: the loop over the terms does not complete, what it
\* raises is ValueError, the driver never holds a table, no entity is
\* classified and nothing is printed or written.
C21_MissingKeywordAbortsRun ==
    (caller = "main" /\ KeywordInNoInfo) =>
        /\ pc \in {"main", "idf_enter", "idf_loop", "raised"}
        /\ pc = "idf_loop" => ti <= Len(terms)
        /\ pc = "raised" => exc[1] = "ValueError"
        /\ idfs = <<>>
        /\ classification = <<>> /\ printed = {} /\ written = <<>>

\* the run over two streets, whose texts lack some keyword, has ended with
\* ValueError and without any output
C21_Witness ==
    /\ pc = "raised"
    /\ exc[1] = "ValueError"
    /\ Cardinality(DOMAIN streets) = 2
    /\ KeywordInNoInfo
    /\ classification = <<>> /\ written = <<>>

(***************************************************************************)
(* Claims about the pruning passes of classify (under SpecPrune).          *)
(***************************************************************************)
\* the pass over the keys of depth d is about to run
PassStarts(d) == pc = "cls_prune" /\ depth = d + 1

\* the keys of depth d below parent p whose score is positive and below 1
WeakChildren(sc, p, d) ==
    {c \in DOMAIN sc : Len(c) = d /\ Parent(c) = p /\ 0 < sc[c] /\ sc[c] < SCALE}

\* the sum of sc[c] / n over the keys c of C
RECURSIVE SumShares(_, _, _)
SumShares(sc, C, n) ==
    IF C = {} THEN 0
    ELSE LET c == CHOOSE x \in C : TRUE
         IN  (sc[c] \div n) + SumShares(sc, C \ {c}, n)

\* C13: a pass over a depth d > 1 removes every key of that depth with a
\* score s, 0 < s < 1, and leaves its parent with what it had (0 without an
\* entry) plus s / child_count(parent) for each such child, once each.
C13_RedistributesShares ==
    [][(pc = "cls_prune" /\ depth > 2) =>
          /\ pc' = "cls_prune"
          /\ \A p \in {Parent(c) : c \in {x \in DOMAIN scores : Len(x) = depth - 1}} :
                \A W \in {WeakChildren(scores, p, depth - 1)} :
                    W # {} =>
                        /\ W \cap DOMAIN scores' = {}
                        /\ p \in DOMAIN scores'
                        /\ scores'[p] = Get0(scores, p)
                                          + SumShares(scores, W, LoadedNumChildren[p])]_vars

\* the pass over depth 2 has moved the scores of two siblings, N/P and
\* N/A, to their parent N, which had no entry
C13_Witness ==
    /\ PassStarts(1)
    /\ <<"N">> \in DOMAIN scores
    /\ <<"N", "P">> \notin DOMAIN scores /\ <<"N", "A">> \notin DOMAIN scores
    /\ "blume" \in DOMAIN idfs /\ idfs["blume"] < 0
    /\ "vogel" \in DOMAIN idfs /\ idfs["vogel"] < 0
    /\ info = <<"blume", "vogel">>
    /\ scores[<<"N">>] > SCALE \div 4

C16_WeakRootIsDropped ==
    [][/\ PassStarts(1) =>
              /\ pc' = "cls_prune"
              /\ DOMAIN scores' =
                    {id \in DOMAIN scores : ~(Len(id) = 1 /\ scores[id] < SCALE)}
              /\ \A id \in DOMAIN scores' : scores'[id] = scores[id]
       /\ (pc = "cls_prune" /\ pc' = "cls_done") =>
              {classes'[i][1] : i \in 1..Len(classes')} = DOMAIN scores]_vars

\* classify has returned a list with N/P but without M, which scored about
\* 0.5 from one weak match
C16_Witness ==
    /\ pc = "cls_done"
    /\ text = "Blume Feldzug"
    /\ idfs["feldzug"] < 0 /\ idfs["blume"] > 0
    /\ Len(classes) = 1
    /\ classes[1][1] = <<"N", "P">>

(***************************************************************************)
(* Claims about interleaved calls of classify (under SpecInterleaved).     *)
(***************************************************************************)
\* what the call with frame f got, once it has ended
FrameOutcome(f) ==
    IF f.pc = "raised" THEN <<"raised", f.exc>> ELSE <<"returned", f.classes>>

\* both interleaved calls have ended
BothEnded ==
    /\ Len(history) = 2
    /\ pc \in {"cls_done", "raised"}
    /\ parked[1].pc \in {"cls_done", "raised"}

\* C18: no step of a call of classify changes _KEYWORDS, _NUM_CHILDREN or
\* the IDF table, nor a local of the call that is not running; and when two
\* interleaved calls have ended, each has the outcome it had alone.
C18_CallsDoNotInterfere ==
    /\ [][/\ UNCHANGED <<_KEYWORDS, _NUM_CHILDREN, idfs>>
          /\ (Len(history) = 2 /\ parked' # parked) => parked'[1] = RunningFrame]_vars
    /\ [](BothEnded =>
            \A f \in {RunningFrame, parked[1]} : FrameOutcome(f) = history[f.who])

\* two calls for different texts, switched while both were pruning, have
\* ended with the lists they returned alone, one of them after a
\* redistribution
C18_Witness ==
    /\ BothEnded
    /\ text = "Kunst Dichter" /\ parked[1].text = "Dichter Musikhaus"
    /\ idfs["dicht"] < 0 /\ idfs["kunst"] > 0 /\ idfs["musik"] > 0 /\ idfs["haus"] > 0
    /\ pc = "cls_done" /\ parked[1].pc = "cls_done"
    /\ Len(classes) = 1 /\ Len(parked[1].classes) = 2
    /\ history[3 - parked[1].who] = <<"returned", classes>>

\* C24: a key whose depth's pass is over (it was kept, so its score is
\* >= 1) is in the Score Map with the same score after every later pass,
\* and the list returned holds it with that score.
C24_KeptStaysUnchanged ==
    /\ [](pc = "cls_prune" =>
            \A id \in DOMAIN scores : Len(id) >= depth => scores[id] >= SCALE)
    /\ [][/\ (pc = "cls_prune" /\ pc' = "cls_prune") =>
                \A id \in DOMAIN scores :
                    Len(id) >= depth => (id \in DOMAIN scores' /\ scores'[id] = scores[id])
          /\ (pc = "cls_prune" /\ pc' = "cls_done") =>
                \A id \in DOMAIN scores : <<id, scores[id]>> \in Range(classes')]_vars

\* classify has returned A/L alone: it was kept by the pass over depth 2
\* and the pass over depth 1 then removed its parent A, which had about
\* 0.95
C24_Witness ==
    /\ pc = "cls_done"
    /\ text = "Kunst Dichter"
    /\ idfs["kunst"] < 0 /\ idfs["dicht"] > 0
    /\ Len(classes) = 1
    /\ classes[1][1] = <<"A", "L">>

\* C25: the first pass is the one over the greatest depth of a key, each
\* pass is followed by the pass over the depth below it, and classify
\* returns after the pass over depth 1; the pass over depth d removes only
\* keys of depth d and creates or raises only keys of depth d - 1.
C25_PassesInDecreasingDepth ==
    [][/\ (pc = "cls_scored" /\ pc' = "cls_prune") =>
              depth' = Max({Len(id) : id \in DOMAIN scores}) + 1
       /\ (pc = "cls_prune" /\ pc' = "cls_prune") =>
              /\ depth >= 2 /\ depth' = depth - 1
              /\ \A id \in DOMAIN scores \ DOMAIN scores' : Len(id) = depth - 1
              /\ \A id \in DOMAIN scores' :
                    (id \notin DOMAIN scores \/ scores'[id] # scores[id]) =>
                        /\ Len(id) = depth - 2
                        /\ scores'[id] > Get0(scores, id)
       /\ (pc = "cls_prune" /\ pc' = "cls_done") => depth = 1]_vars

\* the pass over depth 1 is about to run after the pass over depth 2 has
\* raised A, which had a score of its own, by the share of A/L
C25_Witness ==
    /\ PassStarts(1)
    /\ text = "Kunst Dichter"
    /\ idfs["kunst"] < 0 /\ idfs["dicht"] < 0
    /\ <<"A", "L">> \notin DOMAIN scores
    /\ scores[<<"A">>] >= SCALE

\* C26: no call of classify raises ZeroDivisionError: whenever a pass is
\* about to redistribute the score of a key, _NUM_CHILDREN holds a count
\* >= 1 for its parent; no entry of _NUM_CHILDREN is 0.
C26_NoDivisionByZero ==
    /\ pc = "raised" => exc[1] # "ZeroDivisionError"
    /\ \A p \in DOMAIN _NUM_CHILDREN : _NUM_CHILDREN[p] >= 1
    /\ (pc = "cls_prune" /\ depth > 2) =>
          \A c \in DOMAIN scores :
              (Len(c) = depth - 1 /\ 0 < scores[c] /\ scores[c] < SCALE) =>
                  Get0(_NUM_CHILDREN, Parent(c)) >= 1

\* the pass over depth 2 has divided the score of N/P by the count of N,
\* which has no keywords of its own
C26_Witness ==
    /\ PassStarts(1)
    /\ text = "Blume"
    /\ idfs["blume"] < 0
    /\ <<"N">> \in DOMAIN scores /\ scores[<<"N">>] > 0
    /\ _NUM_CHILDREN[<<"N">>] = 2

\* the Score Map scoring leaves for the text and the table (no exception)
ScoredMap(inf) == [id \in TopicIds |-> TopicOutcome(LoadedKeywords[id], inf, idfs).score]

\* the passes over the depths d, d - 1, ..., 1 on the Score Map sc
RECURSIVE PassesFrom(_, _)
PassesFrom(sc, d) ==
    IF d < 1 THEN sc
    ELSE PassesFrom(PruneFold([sc |-> sc, nc |-> LoadedNumChildren, err |-> <<>>],
                              Items(sc), 1, d).sc, d - 1)

\* the list obtained from the entries with a positive score alone: empty
\* when there is none, else the passes from their greatest depth down
FromPositiveEntries(sc) ==
    LET pos == [id \in {x \in DOMAIN sc : sc[x] > 0} |-> sc[id]]
    IN  IF DOMAIN pos = {} THEN <<>>
        ELSE SortedByScore(Items(PassesFrom(pos, Max({Len(id) : id \in DOMAIN pos}))))

\* C27: the list classify returns is the list obtained from the positive
\* entries of its Score Map alone, with the passes started at the greatest
\* depth of a positive entry and the empty list when there is none.
C27_ZeroEntriesDoNotMatter ==
    pc = "cls_done" =>
        \A sc \in {ScoredMap(Tokens)} : classes = FromPositiveEntries(sc)

\* classify has returned A alone for a text that matches only A, of depth
\* 1, while scoring left the zero entries of depth 2 in the Score Map
C27_Witness ==
    /\ pc = "cls_done"
    /\ text = "Kunst"
    /\ idfs["kunst"] > 0
    /\ Len(classes) = 1
    /\ classes[1][1] = <<"A">>

\* C29: a key of depth 1 without a positive score of its own holds less
\* than 1 after the pass over depth 2, whatever its children added, and the
\* pass over depth 1 removes it: every topic of the list returned has a
\* keyword in the text.
C29_SharesAloneStayBelowMin ==
    /\ [][/\ (PassStarts(2) /\ pc' = "cls_prune") =>
                \A p \in DOMAIN scores' :
                    (Len(p) = 1 /\ Get0(scores, p) <= 0) => scores'[p] < SCALE
          /\ (PassStarts(1) /\ pc' = "cls_prune") =>
                \A p \in DOMAIN scores :
                    (Len(p) = 1 /\ p \notin MatchedTopics(info)) => p \notin DOMAIN scores']_vars
    /\ [](pc = "cls_done" =>
            \A i \in 1..Len(classes) : classes[i][1] \in MatchedTopics(Tokens))

\* classify has returned the empty list for a text whose weak matches of
\* N/P and N/A both went to N
C29_Witness ==
    /\ pc = "cls_done"
    /\ text = "Blume Vogel"
    /\ idfs["blume"] < 0 /\ idfs["vogel"] < 0
    /\ classes = <<>>

(***************************************************************************)
(* Claims about repeated calls of classify (under SpecClassifyTwice).      *)
(***************************************************************************)
\* the caller's second call has ended
SecondClassifyCallEnded == Len(history) = 1 /\ pc \in {"cls_done", "raised"}

\* C12: a second call of classify with the same text and the same table
\* ends as the first did: the same list, pair by pair in the same order
\* (ties included), or the same exception.
C12_Deterministic == SecondClassifyCallEnded => ClassifyOutcome = history[1]

\* both calls have returned the same two candidates of equal score, in one
\* order, for a text whose pruning redistributed nothing
C12_Witness ==
    /\ SecondClassifyCallEnded
    /\ pc = "cls_done"
    /\ Len(classes) = 2
    /\ classes[1][2] = classes[2][2]
    /\ history[1] = <<"returned", classes>>

(***************************************************************************)
(* Claims about repeated calls of                                          *)
(* calculate_inverse_document_frequencies (under SpecIdfTwice).            *)
(***************************************************************************)
\* the caller's second call has ended
SecondIdfCallEnded == Len(history) = 1 /\ pc \in {"idf_done", "raised"}

\* C11 (as claimed): a second computation from the same terms and the same
\* documents object has the outcome of the first, and nothing but the
\* result has changed.
C11_Repeatable ==
    SecondIdfCallEnded =>
        /\ IdfOutcome = history[1]
        /\ _KEYWORDS = LoadedKeywords /\ _NUM_CHILDREN = LoadedNumChildren
        /\ ~docs_used

\* C11 (amended): with the documents in a list, a second computation has
\* the outcome of the first and nothing but the result has changed; with
\* the documents in a generator, as the driver passes them, the first call
\* exhausts it and a second one raises ValueError for its first term (and
\* returns the empty table when there are no terms).  The module tables
\* are untouched either way.
C11_RepeatableOverLists ==
    SecondIdfCallEnded =>
        /\ _KEYWORDS = LoadedKeywords /\ _NUM_CHILDREN = LoadedNumChildren
        /\ ~docs_gen => (IdfOutcome = history[1] /\ ~docs_used)
        /\ docs_gen =>
              /\ docs_used
              /\ IdfOutcome = IF terms = <<>> THEN <<"returned", <<>>>>
                              ELSE <<"raised", <<"ValueError", _normalize(terms[1])>>>>

\* a table of two weights has been computed twice from a list of documents
C11_Witness ==
    /\ SecondIdfCallEnded
    /\ ~docs_gen
    /\ pc = "idf_done"
    /\ Cardinality(DOMAIN idfs) = 2
    /\ history[1] = <<"returned", idfs>>

(***************************************************************************)
(* Claims about calculate_inverse_document_frequencies (under SpecIdf).   *)
(***************************************************************************)
\* the number of reference documents whose lowercased text contains the
\* lowercased term
Occurrences(term) ==
    Cardinality({j \in 1..Len(docs) : Contains(_normalize(term), _normalize(docs[j]))})

\* the positions of the input terms that occur in no reference document
MissingIdx == {i \in 1..Len(terms) : Occurrences(terms[i]) = 0}

\* C9: when calculate_inverse_document_frequencies returns, the keys of the
\* table are exactly the lowercased input terms, and the weight w of each
\* term is 1 / n (the fixed-point quotient: n * w <= 1 < n * (w + 1/SCALE))
\* for n the number of documents containing it, with n >= 1 and 0 < w <= 1.
C9_WeightIsReciprocal ==
    pc = "idf_done" =>
        /\ DOMAIN idfs = {_normalize(terms[i]) : i \in 1..Len(terms)}
        /\ \A i \in 1..Len(terms) :
              LET w == idfs[_normalize(terms[i])]
                  n == Occurrences(terms[i])
              IN  /\ n >= 1
                  /\ n * w <= SCALE
                  /\ SCALE < n * (w + 1)
                  /\ 0 < w /\ w <= SCALE

\* a call that returned a table with a term found in two documents (only
\* after lowercasing both) and a term found in one
C9_Witness ==
    /\ pc = "idf_done"
    /\ terms = <<"Fluss", "haus">>
    /\ Len(docs) = 2
    /\ 2 * idfs["fluss"] = SCALE
    /\ idfs["haus"] = SCALE

\* C10: a call with an input term that occurs in no reference document ends
\* by raising ValueError with the (lowercased) first such term; no table
\* reaches the caller and none is left behind, wherever the term stands.
C10_MissingTermAborts ==
    (pc \in {"idf_done", "raised"} /\ MissingIdx # {}) =>
        /\ pc = "raised"
        /\ exc = <<"ValueError", _normalize(terms[Nth(MissingIdx, 1)])>>
        /\ idfs = <<>>
        /\ c_idfs = <<>>

\* the call failed on its second term after the first had got its weight
C10_Witness ==
    /\ pc = "raised"
    /\ Len(terms) = 2
    /\ MissingIdx = {2}
    /\ exc = <<"ValueError", "xyz">>

(***************************************************************************)
(* Claims about the PDF Converter (under SpecConverter).                   *)
(***************************************************************************)
IsBold(call) ==
    call.textstate.matrix[3] = 0 /\ EndsWith(call.textstate.font.basefont, "Bd")

\* the texts of the bold calls made so far, in order
BoldTexts ==
    LET b == SelectSeq(rendered, IsBold)
    IN  Tuple([i \in 1..Len(b) |-> SeqText(b[i].seq)])

\* s without leading and trailing whitespace and with every run of
\* whitespace inside replaced by one space
WhitespaceCollapsed(s) ==
    CHOOSE r \in {re_sub(UnicodeSpaces, t, 0) : t \in {strip(s)}} : TRUE

\* while the pages are rendered, the header of the current entry is the
\* text of the most recent bold call
HeaderIsLastBoldText ==
    (pc = "cnv_pages" /\ rendered # <<>> /\ exc = <<>>) =>
        \A b \in {BoldTexts} :
            /\ b # <<>>
            /\ _entry # None
            /\ _entry.header = b[Len(b)]

\* light or italic text before the first bold call fails, and only that
TextBeforeBoldFails ==
    /\ (rendered # <<>> /\ ~IsBold(rendered[1])) =>
            /\ exc # <<>> /\ exc[1] = "TypeError"
            /\ Len(rendered) = 1
            /\ entries = <<>>
    /\ exc # <<>> => (rendered # <<>> /\ ~IsBold(rendered[1]))

\* entries holds, in the order of rendering, the collapsed headers of the
\* entries closed so far that are longer than one character and not in
\* HEADER_STRINGS
EntriesAreKeptHeaders ==
    \A b \in {BoldTexts} :
        \A closed \in {IF pc \in {"cnv_pages", "cnv_finally"} /\ b # <<>>
                        THEN SubSeq(b, 1, Len(b) - 1) ELSE b} :
            \A hs \in {Tuple([i \in 1..Len(closed) |-> WhitespaceCollapsed(closed[i])])} :
                Tuple([i \in 1..Len(entries) |-> entries[i].header])
                    = SelectSeq(hs, LAMBDA h : Len(h) > 1 /\ h \notin Range(HEADER_STRINGS))

\* C30: every bold render_string call closes the current entry and opens a
\* fresh one, so the current header is the text of the most recent bold
\* call alone; light or italic text before the first bold call fails; and
\* entries holds, in rendering order, the whitespace-collapsed headers that
\* are longer than one character and not in HEADER_STRINGS.
C30_EntriesFromBoldCalls ==
    /\ HeaderIsLastBoldText
    /\ TextBeforeBoldFails
    /\ EntriesAreKeptHeaders

=============================================================================
